---- MODULE Spec2Model ----
(***************************************************************************)
(* Model of the release publisher of src/src/publish.ts: the resumable     *)
(* step sequencer (publish / step) and the workflow-run validator          *)
(* (validateWorkflow).  One process invocation is one "run"; a run ends by *)
(* returning, by an uncaught error, or by being killed, and the publisher  *)
(* may then be invoked again on the progress file the run left behind.     *)
(***************************************************************************)
EXTENDS Integers, Sequences, FiniteSets, TLC

(* ---------------------------- bounds ----------------------------------- *)
\* number of entries of configuration.directories
NumDirs == 2
\* number of invocations of the publisher that are followed
MaxInvocations == 2
\* number of workflow runs one poll response lists at most
MaxResponseLen == 2
\* number of queries of one validation that are followed, when the
\* validation is looked at on its own
MaxQueries == 30
\* number of characters of a package name
MaxNameLen == 3
\* number of queries of one validation that are followed inside a whole
\* invocation of the publisher
MaxSeqQueries == 2

(* --------------------------- constants --------------------------------- *)
\* the step names, in the order of the chain of publish()
Steps ==
    << "package", "npm install", "git commit", "git tag", "git push",
       "push workflow", "release", "release workflow" >>

NumSteps == Len(Steps)

StepNames == { Steps[i] : i \in 1..NumSteps }

\* directoryStates[directory] === undefined
Undefined == "undefined"

\* the sentinel written after the last step of a directory
Complete == "complete"

\* a name that is in the progress file but is no step and not the sentinel
Bogus == "bogus"

\* initial value of workflowRunID
NoRunID == -1

\* the query count at which a validation without a run gives up
NotStartedQueries == 10

Dirs == 1..NumDirs

Markers == StepNames \cup {Undefined, Complete, Bogus}

\* the ids of the workflow runs of the commit: as many as a response lists
RunIDs == 1..MaxResponseLen

WorkflowRuns ==
    [id : RunIDs, status : {"queued", "in_progress"}, conclusion : {"null"}]
    \cup [id : RunIDs, status : {"completed"}, conclusion : {"success", "failure"}]

\* the progress files a first invocation starts from: no file, or a file
\* that names, for one directory, something the sequencer never writes
InitialFiles ==
    { f \in [Dirs -> {Undefined, Bogus}] : Cardinality({d \in Dirs : f[d] = Bogus}) <= 1 }

\* a response lists every run once
DistinctIDs(response) ==
    \A j \in 1..Len(response) : \A k \in 1..Len(response) :
        response[j].id = response[k].id => j = k

Responses ==
    { response \in UNION { [1..n -> WorkflowRuns] : n \in 0..MaxResponseLen } :
        DistinctIDs(response) }

\* the responses that list at most one run
ShortResponses == { << >> } \cup { << r >> : r \in WorkflowRuns }

(* ------------------------ package manifests ---------------------------- *)
\* configuration.version
Version == "2.1.0-beta"

\* configuration.organization, as the sequence of its characters
Organization == << "o" >>

\* line 203: `@${configuration.organization}/`
OrganizationPrefixNoSlash == << "@" >> \o Organization

OrganizationPrefix == << "@" >> \o Organization \o << "/" >>

\* line 204: `^${configuration.version}`
DependencyVersion == << "^", Version >>

\* the version and the version constraint of a manifest not yet updated
OldVersion == "2.0.0"

OldDependencyVersion == << "^", OldVersion >>

\* the characters of package names
NameChars == { "@", "/" } \cup { Organization[i] : i \in 1..Len(Organization) }

\* package names: sequences of at most MaxNameLen characters
Names == UNION { [1..n -> NameChars] : n \in 1..MaxNameLen }

\* an absent dependencies member of package.json
NoDependencies == [present |-> FALSE, entries |-> << >>]

\* dependencies members with the given packages
DependenciesOf(keySets) ==
    {NoDependencies} \cup
    { [present |-> TRUE, entries |-> [key \in keys |-> OldDependencyVersion]] :
        keys \in keySets }

\* the manifests: dependencies of at most two packages, devDependencies of
\* at most one
Manifests ==
    [version : {OldVersion},
     dependencies : DependenciesOf({ {a, b} : a \in Names, b \in Names } \cup {{}}),
     devDependencies : DependenciesOf({ {a} : a \in Names } \cup {{}})]

\* a manifest that depends on a package of the organization and on another
ExampleManifest ==
    [version |-> OldVersion,
     dependencies |->
        [present |-> TRUE,
         entries |-> [key \in {OrganizationPrefix, Organization} |-> OldDependencyVersion]],
     devDependencies |-> NoDependencies]

\* key.startsWith(prefix)
StartsWith(key, prefix) ==
    /\ Len(key) >= Len(prefix)
    /\ SubSeq(key, 1, Len(prefix)) = prefix

\* lines 206-214: updateDependencies
UpdateDependencies(dependencies) ==
    IF dependencies.present
    THEN [dependencies EXCEPT !.entries =
            [key \in DOMAIN @ |->
                IF StartsWith(key, OrganizationPrefix)
                THEN DependencyVersion
                ELSE @[key]]]
    ELSE dependencies

\* lines 197-219: the callback of the package step, on the parsed manifest
UpdateManifest(packageConfiguration) ==
    [version |-> Version,
     dependencies |-> UpdateDependencies(packageConfiguration.dependencies),
     devDependencies |-> UpdateDependencies(packageConfiguration.devDependencies)]

VARIABLES
    disk,               \* contents of config/publish.state.json
    directoryStates,    \* the in-memory store of the running process
    ignoreUncommitted,  \* configuration.ignoreUncommitted
    pc,                 \* position of the process
    dir,                \* index of the directory of the for loop
    stepIdx,            \* index of the step the chain has reached
    hasPushWorkflow,
    hasReleaseWorkflow,
    workflowRunID,
    queryCount,
    completed,
    validation,         \* "idle", "polling", "success", or the error thrown
    error,              \* the error publish() rejected with, "none" otherwise
    invocation,         \* number of the invocation of the publisher
    startStates,        \* history: the progress file when the process started
    invoked,            \* history: per directory, the steps whose callback was invoked
    awaiting,           \* what validateWorkflow is suspended on: "timer", "response", "none"
    observed,           \* history: ids of not-completed runs the validator processed
    suspensions,        \* history: number of poll intervals the validation has waited
    shown,              \* history: what the responses of the validation listed
    checked,            \* history: what the last precondition check saw
    lastExit,           \* history: how the latest ended invocation ended
    manifest,           \* package.json of each directory
    pending             \* part_000: the fs requests whose callback has not run

vars ==
    << disk, directoryStates, ignoreUncommitted, pc, dir, stepIdx,
       hasPushWorkflow, hasReleaseWorkflow, workflowRunID, queryCount,
       completed, validation, error, invocation, startStates, invoked,
       awaiting, observed, suspensions, shown, checked, lastExit, manifest,
       pending >>

seqVars == << dir, stepIdx >>
flowVars == << hasPushWorkflow, hasReleaseWorkflow >>
valVars ==
    << workflowRunID, queryCount, completed, validation, awaiting, observed,
       suspensions, shown >>
histVars == << invocation, startStates >>

NoExit == [kind |-> "none", dir |-> 0, step |-> 0, inStep |-> FALSE]

NoCheck == [onMain |-> TRUE, dirty |-> FALSE]

\* any: some response listed a run; locked: the conclusion with which the
\* last response listed, as completed, the run locked before it; other: the
\* last response listed a not-completed run other than the run locked before it
NoShown == [any |-> FALSE, locked |-> "none", other |-> FALSE]

Init ==
    /\ disk \in InitialFiles
    /\ directoryStates = disk
    /\ ignoreUncommitted \in BOOLEAN
    /\ pc = "check"
    /\ dir = 1
    /\ stepIdx = 1
    /\ hasPushWorkflow = FALSE
    /\ hasReleaseWorkflow = FALSE
    /\ workflowRunID = NoRunID
    /\ queryCount = 0
    /\ completed = FALSE
    /\ validation = "idle"
    /\ error = "none"
    /\ invocation = 1
    /\ startStates = disk
    /\ invoked = [d \in Dirs |-> << >>]
    /\ awaiting = "none"
    /\ observed = {}
    /\ suspensions = 0
    /\ shown = NoShown
    /\ checked = NoCheck
    /\ lastExit = NoExit
    /\ manifest = [d \in Dirs |-> ExampleManifest]
    /\ pending = {}

(* ------------------------- the sequencer ------------------------------- *)
\* JSON.stringify of the store, written to the state file
SaveState(states) == states

\* the check of line 82 without the test of the marker
UncommittedFailsWithMarker(ignore, directoryState, dirty) ==
    ~ignore /\ dirty

\* line 82: the uncommitted-changes check throws
UncommittedFails(ignore, directoryState, dirty) ==
    ~ignore /\ directoryState = Undefined /\ dirty

\* the test of line 105 taking any step name for the name of this step
StepRunsAnyStep(directoryState, state) ==
    directoryState = Undefined \/ directoryState \in StepNames

\* line 105: step() runs the callback
StepRuns(directoryState, state) ==
    directoryState = Undefined \/ directoryState = state

\* the workflow callbacks without the tests of lines 238 and 256
ValidatesAlways(i) ==
    Steps[i] \in {"push workflow", "release workflow"}

\* lines 237-241 and 255-259: the callback of the step calls validateWorkflow
Validates(i) ==
    \/ Steps[i] = "push workflow" /\ hasPushWorkflow
    \/ Steps[i] = "release workflow" /\ hasReleaseWorkflow

\* the callback of the step can fail without validating: every callback but
\* the two workflow callbacks, which do nothing when their trigger is absent
CanThrow(i) == Steps[i] \notin {"push workflow", "release workflow"}

Exit(kind) ==
    [kind |-> kind, dir |-> dir, step |-> stepIdx, inStep |-> pc = "callback"]

\* the process has ended: nothing of its memory is left
Gone ==
    /\ directoryStates' = [d \in Dirs |-> Undefined]
    /\ hasPushWorkflow' = FALSE
    /\ hasReleaseWorkflow' = FALSE
    /\ workflowRunID' = NoRunID
    /\ queryCount' = 0
    /\ completed' = FALSE
    /\ validation' = "idle"
    /\ awaiting' = "none"
    /\ observed' = {}
    /\ suspensions' = 0
    /\ shown' = NoShown

\* lines 73-96: chdir, the branch check, the uncommitted-changes check and
\* the reading of the release workflow declaration
CheckPreconditions ==
    /\ pc = "check"
    /\ \E onMain \in BOOLEAN, dirty \in BOOLEAN, push \in BOOLEAN, release \in BOOLEAN :
        /\ checked' = [onMain |-> onMain, dirty |-> dirty]
        /\ IF ~onMain
           THEN /\ pc' = "failed"
                /\ error' = "branch"
                /\ lastExit' = Exit("failed")
                /\ Gone
                /\ UNCHANGED stepIdx
           ELSE IF UncommittedFails(ignoreUncommitted, directoryStates[dir], dirty)
           THEN /\ pc' = "failed"
                /\ error' = "uncommitted"
                /\ lastExit' = Exit("failed")
                /\ Gone
                /\ UNCHANGED stepIdx
           ELSE /\ pc' = "step"
                /\ stepIdx' = 1
                /\ hasPushWorkflow' = push
                /\ hasReleaseWorkflow' = release
                /\ UNCHANGED << directoryStates, valVars, error, lastExit >>
    /\ UNCHANGED << disk, ignoreUncommitted, manifest, pending, dir, histVars, invoked >>

\* step() and validateWorkflow with the first request sent without the
\* timer of line 159
StepBeginQueriesFirst ==
    /\ pc = "step"
    /\ stepIdx <= NumSteps
    /\ StepRuns(directoryStates[dir], Steps[stepIdx])
    /\ directoryStates' = [directoryStates EXCEPT ![dir] = Steps[stepIdx]]
    /\ invoked' = [invoked EXCEPT ![dir] = Append(@, stepIdx)]
    /\ pc' = "callback"
    /\ IF Validates(stepIdx)
       THEN /\ validation' = "polling"
            /\ workflowRunID' = NoRunID
            /\ queryCount' = 0
            /\ completed' = FALSE
            /\ awaiting' = "response"
            /\ observed' = {}
            /\ suspensions' = 0
            /\ shown' = NoShown
       ELSE /\ validation' = "idle"
            /\ UNCHANGED << workflowRunID, queryCount, completed, awaiting,
                            observed, suspensions, shown >>
    /\ UNCHANGED << disk, ignoreUncommitted, manifest, pending, seqVars, flowVars, error,
                    histVars, checked, lastExit >>

\* lines 103-111 and 147-160: step() finds the directory without marker or
\* at this step, sets the marker in memory and invokes the callback; the
\* callback of a workflow step with trigger enters validateWorkflow, which
\* starts the timer of its first iteration
StepBegin ==
    /\ pc = "step"
    /\ stepIdx <= NumSteps
    /\ StepRuns(directoryStates[dir], Steps[stepIdx])
    /\ directoryStates' = [directoryStates EXCEPT ![dir] = Steps[stepIdx]]
    /\ invoked' = [invoked EXCEPT ![dir] = Append(@, stepIdx)]
    /\ pc' = "callback"
    /\ IF Validates(stepIdx)
       THEN /\ validation' = "polling"
            /\ workflowRunID' = NoRunID
            /\ queryCount' = 0
            /\ completed' = FALSE
            /\ awaiting' = "timer"
            /\ observed' = {}
            /\ suspensions' = 0
            /\ shown' = NoShown
       ELSE /\ validation' = "idle"
            /\ UNCHANGED << workflowRunID, queryCount, completed, awaiting,
                            observed, suspensions, shown >>
    /\ UNCHANGED << disk, ignoreUncommitted, manifest, pending, seqVars, flowVars, error,
                    histVars, checked, lastExit >>

\* lines 127-129: step() skips the callback
StepSkip ==
    /\ pc = "step"
    /\ stepIdx <= NumSteps
    /\ ~StepRuns(directoryStates[dir], Steps[stepIdx])
    /\ stepIdx' = stepIdx + 1
    /\ UNCHANGED << disk, directoryStates, ignoreUncommitted, manifest, pending, pc, dir,
                    flowVars, valVars, error, histVars, invoked, checked,
                    lastExit >>

\* lines 113-126 and 196-220: the callback returned or its promise resolved
\* (that of the package step having written package.json): the marker
\* is deleted and the store written (the locals of a validateWorkflow call
\* that has returned are gone)
CallbackReturn ==
    /\ pc = "callback"
    /\ validation \in {"idle", "success"}
    /\ directoryStates' = [directoryStates EXCEPT ![dir] = Undefined]
    /\ disk' = SaveState(directoryStates')
    /\ stepIdx' = stepIdx + 1
    /\ pc' = "step"
    /\ manifest' = IF Steps[stepIdx] = "package"
                   THEN [manifest EXCEPT ![dir] = UpdateManifest(@)]
                   ELSE manifest
    /\ validation' = "idle"
    /\ workflowRunID' = NoRunID
    /\ queryCount' = 0
    /\ completed' = FALSE
    /\ awaiting' = "none"
    /\ observed' = {}
    /\ suspensions' = 0
    /\ shown' = NoShown
    /\ UNCHANGED << ignoreUncommitted, pending, dir, flowVars, error, histVars,
                    invoked, checked, lastExit >>

\* step() with the delete of line 121 moved into the finally
CallbackThrowClears ==
    /\ pc = "callback"
    /\ \/ validation = "idle" /\ CanThrow(stepIdx)
       \/ validation \notin {"idle", "polling", "success"}
    /\ disk' = SaveState([directoryStates EXCEPT ![dir] = Undefined])
    /\ pc' = "failed"
    /\ error' = IF validation = "idle" THEN "step" ELSE validation
    /\ lastExit' = Exit("failed")
    /\ Gone
    /\ UNCHANGED << ignoreUncommitted, manifest, pending, seqVars, histVars, invoked, checked >>

\* lines 110-126 and 270-272: the callback threw or its promise rejected:
\* the store is written with the marker in place and the error leaves publish()
CallbackThrow ==
    /\ pc = "callback"
    /\ \/ validation = "idle" /\ CanThrow(stepIdx)
       \/ validation \notin {"idle", "polling", "success"}
    /\ disk' = SaveState(directoryStates)
    /\ pc' = "failed"
    /\ error' = IF validation = "idle" THEN "step" ELSE validation
    /\ lastExit' = Exit("failed")
    /\ Gone
    /\ UNCHANGED << ignoreUncommitted, manifest, pending, seqVars, histVars, invoked, checked >>

\* lines 262-264 without the saveState() of line 263
MarkCompleteNoSave ==
    /\ pc = "step"
    /\ stepIdx = NumSteps + 1
    /\ directoryStates' = [directoryStates EXCEPT ![dir] = Complete]
    /\ disk' = disk
    /\ IF dir < NumDirs
       THEN /\ dir' = dir + 1
            /\ pc' = "check"
            /\ stepIdx' = 1
       ELSE /\ pc' = "finish"
            /\ UNCHANGED << dir, stepIdx >>
    /\ hasPushWorkflow' = FALSE
    /\ hasReleaseWorkflow' = FALSE
    /\ checked' = NoCheck
    /\ UNCHANGED << ignoreUncommitted, manifest, pending, valVars, error, histVars, invoked,
                    lastExit >>

\* lines 262-264 without the assignment of line 262
MarkCompleteNoSentinel ==
    /\ pc = "step"
    /\ stepIdx = NumSteps + 1
    /\ directoryStates' = directoryStates
    /\ disk' = SaveState(directoryStates')
    /\ IF dir < NumDirs
       THEN /\ dir' = dir + 1
            /\ pc' = "check"
            /\ stepIdx' = 1
       ELSE /\ pc' = "finish"
            /\ UNCHANGED << dir, stepIdx >>
    /\ hasPushWorkflow' = FALSE
    /\ hasReleaseWorkflow' = FALSE
    /\ checked' = NoCheck
    /\ UNCHANGED << ignoreUncommitted, manifest, pending, valVars, error, histVars, invoked,
                    lastExit >>

\* lines 262-264: after the chain of steps the directory is marked complete
\* and the body of the for loop, with its locals, ends
MarkComplete ==
    /\ pc = "step"
    /\ stepIdx = NumSteps + 1
    /\ directoryStates' = [directoryStates EXCEPT ![dir] = Complete]
    /\ disk' = SaveState(directoryStates')
    /\ IF dir < NumDirs
       THEN /\ dir' = dir + 1
            /\ pc' = "check"
            /\ stepIdx' = 1
       ELSE /\ pc' = "finish"
            /\ UNCHANGED << dir, stepIdx >>
    /\ hasPushWorkflow' = FALSE
    /\ hasReleaseWorkflow' = FALSE
    /\ checked' = NoCheck
    /\ UNCHANGED << ignoreUncommitted, manifest, pending, valVars, error, histVars, invoked,
                    lastExit >>

\* lines 266-268 without the reset of line 266
FinishNoReset ==
    /\ pc = "finish"
    /\ directoryStates' = directoryStates
    /\ disk' = SaveState(directoryStates')
    /\ pc' = "done"
    /\ lastExit' = Exit("done")
    /\ UNCHANGED << ignoreUncommitted, manifest, pending, seqVars, flowVars, valVars, error,
                    histVars, invoked, checked >>

\* lines 266-268: after the last directory the store is reset
Finish ==
    /\ pc = "finish"
    /\ directoryStates' = [d \in Dirs |-> Undefined]
    /\ disk' = SaveState(directoryStates')
    /\ pc' = "done"
    /\ lastExit' = Exit("done")
    /\ UNCHANGED << ignoreUncommitted, manifest, pending, seqVars, flowVars, valVars, error,
                    histVars, invoked, checked >>

(* ------------------------- the validator ------------------------------- *)
\* the loop body locking onto the latest not-completed run instead of
\* throwing at line 175
ProcessRunRelock(v, workflowRun) ==
    IF workflowRun.status # "completed"
    THEN IF workflowRun.id = v.workflowRunID
         THEN [v EXCEPT !.observed = @ \cup {workflowRun.id}]
         ELSE [v EXCEPT !.workflowRunID = workflowRun.id,
                        !.observed = @ \cup {workflowRun.id}]
    ELSE IF workflowRun.id = v.workflowRunID
         THEN IF workflowRun.conclusion # "success"
              THEN [v EXCEPT !.thrown = "conclusion"]
              ELSE [v EXCEPT !.completed = TRUE]
         ELSE v

\* the loop body without the test of the conclusion of line 180
ProcessRunAnyConclusion(v, workflowRun) ==
    IF workflowRun.status # "completed"
    THEN IF workflowRun.id = v.workflowRunID
         THEN [v EXCEPT !.observed = @ \cup {workflowRun.id}]
         ELSE IF v.workflowRunID = NoRunID
         THEN [v EXCEPT !.workflowRunID = workflowRun.id,
                        !.observed = @ \cup {workflowRun.id}]
         ELSE [v EXCEPT !.thrown = "parallel",
                        !.observed = @ \cup {workflowRun.id}]
    ELSE IF workflowRun.id = v.workflowRunID
         THEN [v EXCEPT !.completed = TRUE]
         ELSE v

\* lines 167-185: the body of the loop over response.data.workflow_runs
ProcessRun(v, workflowRun) ==
    IF workflowRun.status # "completed"
    THEN IF workflowRun.id = v.workflowRunID
         THEN [v EXCEPT !.observed = @ \cup {workflowRun.id}]
         ELSE IF v.workflowRunID = NoRunID
         THEN [v EXCEPT !.workflowRunID = workflowRun.id,
                        !.observed = @ \cup {workflowRun.id}]
         ELSE [v EXCEPT !.thrown = "parallel",
                        !.observed = @ \cup {workflowRun.id}]
    ELSE IF workflowRun.id = v.workflowRunID
         THEN IF workflowRun.conclusion # "success"
              THEN [v EXCEPT !.thrown = "conclusion"]
              ELSE [v EXCEPT !.completed = TRUE]
         ELSE v

\* lines 166-186: the loop, left by the first throw
RECURSIVE ProcessRuns(_, _)
ProcessRuns(v, workflowRuns) ==
    IF workflowRuns = << >> \/ v.thrown # "none"
    THEN v
    ELSE ProcessRuns(ProcessRun(v, Head(workflowRuns)), Tail(workflowRuns))

\* the test of line 189 one query late
NotStartedLate(count, runID) ==
    count = NotStartedQueries + 1 /\ runID = NoRunID

\* lines 188-191: the query is counted and a validation without run gives up
NotStarted(count, runID) ==
    count = NotStartedQueries /\ runID = NoRunID

\* lines 158-164: the timer of the iteration has elapsed and the request
\* for the runs of the commit is sent
Suspend(maxQueries) ==
    /\ pc = "callback"
    /\ validation = "polling"
    /\ awaiting = "timer"
    /\ queryCount < maxQueries
    /\ awaiting' = "response"
    /\ suspensions' = suspensions + 1
    /\ UNCHANGED << disk, directoryStates, ignoreUncommitted, manifest, pending, pc, seqVars,
                    flowVars, workflowRunID, queryCount, completed, validation,
                    observed, shown, error, histVars, invoked, checked,
                    lastExit >>

\* what a response lists, for the validation that held runID before it
Shows(response, runID, before) ==
    [any |-> before.any \/ response # << >>,
     locked |->
        IF \E k \in 1..Len(response) :
               /\ runID # NoRunID
               /\ response[k].id = runID
               /\ response[k].status = "completed"
        THEN (CHOOSE r \in { response[k] : k \in 1..Len(response) } :
                  r.id = runID /\ r.status = "completed").conclusion
        ELSE "none",
     other |->
        \E k \in 1..Len(response) :
            /\ runID # NoRunID
            /\ response[k].id # runID
            /\ response[k].status # "completed"]

\* lines 165-193: the response has arrived: the loop over its runs, the
\* count of the query and the test of the do-while
Poll(responses) ==
    /\ pc = "callback"
    /\ validation = "polling"
    /\ awaiting = "response"
    /\ \E response \in responses :
        LET v == ProcessRuns([workflowRunID |-> workflowRunID,
                              completed |-> completed,
                              thrown |-> "none",
                              observed |-> observed], response)
        IN  /\ workflowRunID' = v.workflowRunID
            /\ completed' = v.completed
            /\ observed' = v.observed
            /\ shown' = Shows(response, workflowRunID, shown)
            /\ queryCount' = IF v.thrown = "none" THEN queryCount + 1 ELSE queryCount
            /\ validation' =
                 IF v.thrown # "none" THEN v.thrown
                 ELSE IF NotStarted(queryCount + 1, v.workflowRunID) THEN "notStarted"
                 ELSE IF v.completed THEN "success"
                 ELSE "polling"
            /\ awaiting' = IF validation' = "polling" THEN "timer" ELSE "none"
    /\ UNCHANGED << disk, directoryStates, ignoreUncommitted, manifest, pending, pc, seqVars,
                    flowVars, suspensions, error, histVars, invoked, checked,
                    lastExit >>

\* lines 149 and 161-164: git rev-parse, at the start of the validation, or
\* the request to the remote fails
RequestFails ==
    /\ pc = "callback"
    /\ validation = "polling"
    /\ awaiting = "response" \/ suspensions = 0
    /\ validation' = "rejected"
    /\ awaiting' = "none"
    /\ UNCHANGED << disk, directoryStates, ignoreUncommitted, manifest, pending, pc, seqVars,
                    flowVars, workflowRunID, queryCount, completed, observed,
                    suspensions, shown, error, histVars, invoked, checked,
                    lastExit >>

(* ------------------------- the environment ----------------------------- *)
\* the process is terminated from outside while publish() is running
Kill ==
    /\ pc \in {"check", "step", "callback", "finish"}
    /\ pc' = "killed"
    /\ lastExit' = Exit("killed")
    /\ Gone
    /\ checked' = NoCheck
    /\ UNCHANGED << disk, ignoreUncommitted, manifest, pending, seqVars, error, histVars, invoked >>

\* lines 60-71: the operator invokes the publisher again: the store is
\* loaded from the state file
Restart ==
    /\ pc \in {"done", "failed", "killed"}
    /\ invocation < MaxInvocations
    /\ invocation' = invocation + 1
    /\ directoryStates' = disk
    /\ startStates' = disk
    /\ pc' = "check"
    /\ dir' = 1
    /\ stepIdx' = 1
    /\ hasPushWorkflow' = FALSE
    /\ hasReleaseWorkflow' = FALSE
    /\ workflowRunID' = NoRunID
    /\ queryCount' = 0
    /\ completed' = FALSE
    /\ validation' = "idle"
    /\ awaiting' = "none"
    /\ observed' = {}
    /\ suspensions' = 0
    /\ shown' = NoShown
    /\ error' = "none"
    /\ invoked' = [d \in Dirs |-> << >>]
    /\ checked' = NoCheck
    /\ UNCHANGED << disk, ignoreUncommitted, manifest, pending, lastExit >>

Next ==
    \/ CheckPreconditions
    \/ StepBegin
    \/ StepSkip
    \/ CallbackReturn
    \/ CallbackThrow
    \/ MarkComplete
    \/ Finish
    \/ Suspend(MaxSeqQueries)
    \/ Poll(ShortResponses)
    \/ RequestFails
    \/ Kill
    \/ Restart

Spec == Init /\ [][Next]_vars

(* ------------- one call of validateWorkflow on its own ----------------- *)
\* the states in which the first invocation, started without progress file,
\* enters validateWorkflow: in the push workflow or release workflow step
\* of some directory, all directories before it being complete
InitValidator ==
    /\ ignoreUncommitted \in BOOLEAN
    /\ dir \in Dirs
    /\ stepIdx \in { i \in 1..NumSteps : Steps[i] \in {"push workflow", "release workflow"} }
    /\ hasPushWorkflow \in BOOLEAN
    /\ hasReleaseWorkflow \in BOOLEAN
    /\ Validates(stepIdx)
    /\ directoryStates =
         [d \in Dirs |-> IF d < dir THEN Complete
                         ELSE IF d = dir THEN Steps[stepIdx] ELSE Undefined]
    /\ disk = [d \in Dirs |-> IF d < dir THEN Complete ELSE Undefined]
    /\ pc = "callback"
    /\ workflowRunID = NoRunID
    /\ queryCount = 0
    /\ completed = FALSE
    /\ validation = "polling"
    /\ error = "none"
    /\ invocation = 1
    /\ startStates = [d \in Dirs |-> Undefined]
    /\ invoked =
         [d \in Dirs |-> IF d < dir THEN [i \in 1..NumSteps |-> i]
                         ELSE IF d = dir THEN [i \in 1..stepIdx |-> i] ELSE << >>]
    /\ awaiting = "timer"
    /\ observed = {}
    /\ suspensions = 0
    /\ shown = NoShown
    /\ checked \in [onMain : {TRUE}, dirty : {d \in BOOLEAN : d => ignoreUncommitted}]
    /\ lastExit = NoExit
    /\ manifest = [d \in Dirs |-> IF d <= dir THEN UpdateManifest(ExampleManifest)
                                   ELSE ExampleManifest]
    /\ pending = {}

NextValidator ==
    \/ Suspend(MaxQueries)
    \/ Poll(Responses)
    \/ RequestFails
    \/ CallbackReturn
    \/ CallbackThrow

SpecValidator == InitValidator /\ [][NextValidator]_vars

TypeOK ==
    /\ disk \in [Dirs -> Markers]
    /\ directoryStates \in [Dirs -> Markers]
    /\ pc \in {"check", "step", "callback", "finish", "done", "failed", "killed",
              "loop"}
    /\ dir \in Dirs
    /\ stepIdx \in 1..(NumSteps + 1)
    /\ workflowRunID \in RunIDs \cup {NoRunID}
    /\ queryCount \in 0..MaxQueries
    /\ validation \in {"idle", "polling", "success", "parallel", "conclusion",
                       "notStarted", "rejected"}
    /\ invocation \in 1..MaxInvocations
    /\ awaiting \in {"none", "timer", "response"}
    /\ suspensions \in 0..MaxQueries
    /\ shown \in [any : BOOLEAN, locked : {"none", "success", "failure"}, other : BOOLEAN]

(* ----------------------------- claims ---------------------------------- *)
\* a process of the publisher is running
Live == pc \in {"check", "step", "callback", "finish"}

\* C1: crash resumption.  If the previous invocation was killed while step K
\* of a directory was in progress, this invocation invokes no callback of a
\* step before K for that directory: it resumes the directory at step K.
CrashResumption ==
    (Live /\ lastExit.kind = "killed" /\ lastExit.inStep)
        => \A k \in 1..Len(invoked[lastExit.dir]) :
               invoked[lastExit.dir][k] >= lastExit.step

\* C2: durability point 1.  While the callback of a step is executing, the
\* progress file maps the directory to the name of that step.
DurabilityPoint1 ==
    pc = "callback" => disk[dir] = Steps[stepIdx]

\* the empty store
NoStates == [d \in Dirs |-> Undefined]

\* the chain of steps of directory d has ended without error in this invocation
ChainEnded(d) ==
    \/ d < dir
    \/ d = dir /\ pc = "step" /\ stepIdx = NumSteps + 1
    \/ pc \in {"finish", "done"}

\* this invocation has executed lines 262-263 for directory d
Marked(d) == d < dir \/ pc \in {"finish", "done"}

\* the last step of directory d was run, and succeeded, in this invocation
AllSucceeded(d) ==
    /\ ChainEnded(d)
    /\ invoked[d] # << >>
    /\ invoked[d][Len(invoked[d])] = NumSteps

\* C3: resume from marker.  If the progress file at startup maps a directory
\* to step K, the callbacks invoked for it are K, K+1, ... in order without
\* gap: none before K, every step after K once the step before it has
\* succeeded, and all of K..last once its chain has ended.
ResumeFromMarker ==
    \A d \in Dirs : \A K \in 1..NumSteps :
        startStates[d] = Steps[K] =>
            /\ \A k \in 1..Len(invoked[d]) : invoked[d][k] = K + k - 1
            /\ (d = dir /\ pc = "step") =>
                   Len(invoked[d]) = IF stepIdx > K THEN stepIdx - K ELSE 0
            /\ (d = dir /\ pc = "callback") =>
                   (Len(invoked[d]) = stepIdx - K + 1 /\ stepIdx >= K)
            /\ ChainEnded(d) => Len(invoked[d]) = NumSteps - K + 1

ResumeFromMarkerWitness ==
    \E d \in Dirs : \E K \in 2..NumSteps :
        /\ startStates[d] = Steps[K]
        /\ ChainEnded(d)
        /\ Len(invoked[d]) = NumSteps - K + 1

\* C4: step failure.  When the callback of a step fails, the progress file
\* then maps the directory to the name of the failing step, publish() ends
\* with the error, and the failed process invokes no callback and writes
\* nothing any more.
StepFailureFatal ==
    [][ /\ (pc = "callback" /\ pc' = "failed") =>
               /\ disk'[dir] = Steps[stepIdx]
               /\ error' # "none"
               /\ invoked' = invoked
        /\ pc = "failed" =>
               /\ disk' = disk
               /\ invocation' = invocation => invoked' = invoked ]_vars

StepFailureWitness ==
    /\ pc = "failed"
    /\ error = "step"
    /\ dir = NumDirs
    /\ stepIdx > 1
    /\ disk[dir] = Steps[stepIdx]

\* C5 as stated: completion clears state.  Once all steps of a directory
\* have succeeded, and while the invocation runs, the directory has no entry
\* in the store, in memory and in the progress file.
CompletionClearsState ==
    \A d \in Dirs :
        (Live /\ AllSucceeded(d)) =>
            (directoryStates[d] = Undefined /\ disk[d] = Undefined)

\* C5 as amended: once all steps of a directory have succeeded, and while
\* the invocation runs, the directory has no entry until lines 262-263 have
\* run for it, and from then on its entry is "complete", in memory and in
\* the progress file.
CompletionMarksComplete ==
    \A d \in Dirs :
        (Live /\ AllSucceeded(d)) =>
            IF Marked(d)
            THEN directoryStates[d] = Complete /\ disk[d] = Complete
            ELSE directoryStates[d] = Undefined /\ disk[d] = Undefined

CompletionWitness ==
    /\ Live
    /\ dir = 2
    /\ AllSucceeded(1)
    /\ disk[1] = Complete
    /\ pc = "callback"

\* C6: full-run clears state.  When an invocation ends without error, the
\* progress file holds the empty mapping.
FullRunClearsState ==
    pc = "done" => disk = NoStates

FullRunWitness ==
    /\ pc = "done"
    /\ startStates # NoStates
    /\ \A d \in Dirs : AllSucceeded(d)

\* C7: completed directories are skipped.  After an invocation that failed
\* in directory j, the next invocation invokes no callback of the directories
\* before j, and, when the failure was that of a step, finds that step
\* recorded for j and invokes its callback first.
CompletedSkipped ==
    (Live /\ lastExit.kind = "failed") =>
        /\ \A d \in Dirs : d < lastExit.dir => invoked[d] = << >>
        /\ lastExit.inStep =>
               /\ startStates[lastExit.dir] = Steps[lastExit.step]
               /\ invoked[lastExit.dir] # << >> =>
                      Head(invoked[lastExit.dir]) = lastExit.step

CompletedSkippedWitness ==
    /\ Live
    /\ lastExit.kind = "failed"
    /\ lastExit.inStep
    /\ lastExit.dir = 2
    /\ lastExit.step > 1
    /\ dir = 2
    /\ invoked[2] # << >>

\* C8: unknown marker is fatal.  If the progress file at startup maps a
\* directory to a name that is not a step, the invocation does not get past
\* that directory: its chain of steps does not end without error and it is
\* not recorded as complete.
UnknownMarkerFatal ==
    \A d \in Dirs :
        startStates[d] \notin (StepNames \cup {Undefined}) => ~Marked(d)

\* C9: clean-tree precondition.  The precondition check of a directory that
\* is on main fails with the uncommitted-changes error exactly when the
\* directory has no marker, ignoreUncommitted is not set and the tree is
\* dirty; it then fails before any callback of the directory and without a
\* write of the progress file; with a marker the steps are entered.
CleanTreePrecondition ==
    [][ (pc = "check" /\ pc' # "killed") =>
            LET fatal == /\ checked'.onMain
                         /\ ~ignoreUncommitted
                         /\ directoryStates[dir] = Undefined
                         /\ checked'.dirty
            IN  /\ fatal => /\ pc' = "failed"
                            /\ error' = "uncommitted"
                            /\ disk' = disk
                            /\ invoked' = invoked
                            /\ invoked[dir] = << >>
                /\ error' = "uncommitted" => fatal
                /\ (checked'.onMain /\ directoryStates[dir] # Undefined) =>
                       pc' = "step" ]_vars

CleanTreeWitness ==
    /\ pc = "failed"
    /\ error = "uncommitted"
    /\ checked.dirty
    /\ dir = 2
    /\ startStates[1] \in StepNames
    /\ invoked[1] # << >>
    /\ invoked[2] = << >>

ValidatorTimeout ==
    [][ /\ (pc' = "callback" /\ validation' # "idle" /\ ~shown'.any) =>
               /\ queryCount' = NotStartedQueries =>
                      (validation' = "notStarted" /\ awaiting' = "none")
               /\ queryCount' < NotStartedQueries =>
                      validation' \in {"polling", "rejected"}
               /\ queryCount' <= NotStartedQueries
        /\ validation = "notStarted" =>
               (pc' = "failed" /\ error' = "notStarted") ]_vars

ValidatorTimeoutWitness ==
    /\ validation = "notStarted"
    /\ ~shown.any
    /\ queryCount = NotStartedQueries
    /\ suspensions = NotStartedQueries

\* C12 as stated: locked-run outcome.  A response that lists the locked run
\* as completed ends the validation with success when the conclusion is
\* success and with the failure otherwise, whatever else it lists.
LockedRunOutcome ==
    shown.locked # "none" =>
        validation = IF shown.locked = "success" THEN "success" ELSE "conclusion"

\* C12 as amended: a response that lists the locked run as completed ends
\* the validation; when it lists no not-completed run with another id, with
\* success if the conclusion is success and with the failure otherwise; when
\* it lists one, with the parallel-runs error or the failure, never success.
LockedRunOutcomeAlone ==
    shown.locked # "none" =>
        /\ awaiting = "none"
        /\ ~shown.other =>
               validation = IF shown.locked = "success" THEN "success" ELSE "conclusion"
        /\ shown.other =>
               /\ validation \in {"parallel", "conclusion"}
               /\ shown.locked = "success" => validation = "parallel"

LockedRunOutcomeWitness ==
    /\ shown.locked = "failure"
    /\ ~shown.other
    /\ validation = "conclusion"
    /\ queryCount > 1

\* C13: validator bounded termination.  After thirty queries the validation
\* has ended.
BoundedTermination ==
    queryCount >= 30 => validation # "polling"

\* C16: the not-started error is thrown only by a validation none of whose
\* responses listed a run.
NotStartedOnlyWithoutRun ==
    validation = "notStarted" => ~shown.any

\* C17 as stated: poll schedule.  The first request is sent without a
\* suspension before it and every later request after exactly one more: when
\* a request is out, the validation has waited once per earlier query.
PollSchedule ==
    awaiting = "response" => suspensions = queryCount

\* C17 as amended: every request, the first included, is sent after exactly
\* one suspension of the poll interval: when a request is out the validation
\* has waited once per earlier query and once more, and while the timer runs
\* once per earlier query.
PollScheduleSuspendsFirst ==
    /\ awaiting = "response" => suspensions = queryCount + 1
    /\ awaiting = "timer" => suspensions = queryCount

PollScheduleWitness ==
    /\ awaiting = "response"
    /\ queryCount = 1
    /\ suspensions = 2

NoTrigger ==
    \/ Steps[stepIdx] = "push workflow" /\ ~hasPushWorkflow
    \/ Steps[stepIdx] = "release workflow" /\ ~hasReleaseWorkflow

\* C18: validation is gated by the trigger declaration.  The callback of a
\* workflow step without trigger starts no validation, so that no timer
\* runs and no request is sent, and the step then succeeds and the chain
\* goes on with the next step.
GatedByTrigger ==
    [][ /\ (pc' = "callback" /\ NoTrigger') =>
               (validation' = "idle" /\ awaiting' = "none" /\ suspensions' = 0)
        /\ (pc = "callback" /\ NoTrigger /\ pc' # "killed") =>
               /\ pc' = "step"
               /\ stepIdx' = stepIdx + 1
               /\ error' = "none"
               /\ disk'[dir] = Undefined ]_vars

GatedByTriggerWitness ==
    /\ pc = "step"
    /\ stepIdx = NumSteps + 1
    /\ ~hasPushWorkflow
    /\ ~hasReleaseWorkflow
    /\ Len(invoked[dir]) = NumSteps

(* ------------- the publisher started without progress file ------------- *)
InitFresh ==
    /\ Init
    /\ disk = NoStates

SpecFresh == InitFresh /\ [][Next]_vars

\* at most one directory of the store is mapped to a step name and every
\* directory before it is mapped to "complete"
OneInProgress(states) ==
    /\ Cardinality({ d \in Dirs : states[d] \in StepNames }) <= 1
    /\ \A d \in Dirs :
           states[d] \in StepNames => \A e \in Dirs : e < d => states[e] = Complete

\* C19 as stated: store shape.  Started without progress file, in every
\* state the store, in the file and in memory, maps at most one directory to
\* a step name and every directory before that one to "complete", and has no
\* entry for a directory after the one the for loop is processing.
StoreShape ==
    /\ OneInProgress(disk)
    /\ OneInProgress(directoryStates)
    /\ Live => \A e \in Dirs :
                   e > dir => (disk[e] = Undefined /\ directoryStates[e] = Undefined)

\* the store is some directories mapped to "complete", then at most one
\* mapped to a step name, then directories without entry
CompletePrefix(states) ==
    \E n \in 0..NumDirs :
        /\ \A e \in Dirs : e <= n => states[e] = Complete
        /\ \A e \in Dirs : e = n + 1 => states[e] \in StepNames \cup {Undefined}
        /\ \A e \in Dirs : e > n + 1 => states[e] = Undefined

\* C19 as amended: started without progress file, in every state the store,
\* in the file and in memory, maps at most one directory to a step name,
\* every directory before that one to "complete" and has no entry for a
\* directory after that one; without a directory mapped to a step name, the
\* directories mapped to "complete" are the first ones and no other has an
\* entry.
StoreShapePrefix ==
    /\ OneInProgress(disk)
    /\ OneInProgress(directoryStates)
    /\ CompletePrefix(disk)
    /\ CompletePrefix(directoryStates)

StoreShapeWitness ==
    /\ Live
    /\ invocation = 2
    /\ dir = 1
    /\ disk[1] = Complete
    /\ disk[2] \in StepNames
    /\ directoryStates = disk


(* ---------------------- the package step alone -------------------------- *)
\* The first invocation inside the callback of the package step of the first
\* directory, whose package.json is any of the manifests.
InitPackage ==
    /\ ignoreUncommitted = FALSE
    /\ dir = 1
    /\ stepIdx = 1
    /\ hasPushWorkflow = FALSE
    /\ hasReleaseWorkflow = FALSE
    /\ directoryStates = [d \in Dirs |-> IF d = dir THEN Steps[stepIdx] ELSE Undefined]
    /\ disk = NoStates
    /\ pc = "callback"
    /\ workflowRunID = NoRunID
    /\ queryCount = 0
    /\ completed = FALSE
    /\ validation = "idle"
    /\ error = "none"
    /\ invocation = 1
    /\ startStates = NoStates
    /\ invoked = [d \in Dirs |-> IF d = dir THEN << stepIdx >> ELSE << >>]
    /\ awaiting = "none"
    /\ observed = {}
    /\ suspensions = 0
    /\ shown = NoShown
    /\ checked = [onMain |-> TRUE, dirty |-> FALSE]
    /\ lastExit = NoExit
    /\ manifest \in { [d \in Dirs |-> IF d = dir THEN m ELSE ExampleManifest] :
                        m \in Manifests }
    /\ pending = {}

NextPackage ==
    \/ CallbackReturn
    \/ CallbackThrow

SpecPackage == InitPackage /\ [][NextPackage]_vars

\* the name is "@", the organization, "/" and then anything
OrganizationName(key) ==
    \E n \in 1..(Len(key) + 1) :
        key = << "@" >> \o Organization \o << "/" >> \o SubSeq(key, n, Len(key))

\* the entries of the member after the step: those of the organization at
\* ^<target version>, every other one as before, no entry added or removed
RewrittenScope(before, after) ==
    /\ after.present = before.present
    /\ DOMAIN after.entries = DOMAIN before.entries
    /\ \A key \in DOMAIN before.entries :
          /\ OrganizationName(key) => after.entries[key] = << "^", Version >>
          /\ ~OrganizationName(key) => after.entries[key] = before.entries[key]

PackageStepReturns ==
    /\ pc = "callback"
    /\ Steps[stepIdx] = "package"
    /\ pc' = "step"

CallbackSteps == << "package", "npm install", "git commit", "git tag", "git push" >>

NumCallbackSteps == Len(CallbackSteps)

CallbackStepNames == { CallbackSteps[i] : i \in 1..NumCallbackSteps }

\* the variables of the promise-based revision that this one does not have
laterVars == << ignoreUncommitted, flowVars, valVars, checked, lastExit >>

\* lines 35-41: the read of the state file, the callback of which has not run
ReadRequest == [op |-> "readState", data |-> NoStates, dir |-> 0]

\* lines 70-74: a write of the state file; the text is built when
\* fs.writeFile is called
WriteRequest(states) == [op |-> "writeState", data |-> SaveState(states), dir |-> 0]

\* lines 82-112: the read of package.json of a directory
PackageRequest(d) == [op |-> "readPackage", data |-> NoStates, dir |-> d]

\* lines 29-42: publish() starts with an empty store and, when the state file
\* exists, only requests its contents
InitCallback ==
    /\ disk = NoStates
    /\ directoryStates = NoStates
    /\ ignoreUncommitted = FALSE
    /\ pc = "check"
    /\ dir = 1
    /\ stepIdx = 1
    /\ hasPushWorkflow = FALSE
    /\ hasReleaseWorkflow = FALSE
    /\ workflowRunID = NoRunID
    /\ queryCount = 0
    /\ completed = FALSE
    /\ validation = "idle"
    /\ error = "none"
    /\ invocation = 1
    /\ startStates = NoStates
    /\ invoked = [d \in Dirs |-> << >>]
    /\ awaiting = "none"
    /\ observed = {}
    /\ suspensions = 0
    /\ shown = NoShown
    /\ checked = NoCheck
    /\ lastExit = NoExit
    /\ manifest = [d \in Dirs |-> ExampleManifest]
    /\ pending = {}

\* lines 44-57: chdir, the branch check and the uncommitted-changes check of
\* a repository; a throw leaves publish() and is reported by lines 133-137
RepositoryCheck ==
    /\ pc = "check"
    /\ \E onMain \in BOOLEAN, dirty \in BOOLEAN :
        IF ~onMain
        THEN /\ pc' = "loop"
             /\ error' = "branch"
             /\ UNCHANGED stepIdx
        ELSE IF directoryStates[dir] = Undefined /\ dirty
        THEN /\ pc' = "loop"
             /\ error' = "uncommitted"
             /\ UNCHANGED stepIdx
        ELSE /\ pc' = "step"
             /\ stepIdx' = 1
             /\ UNCHANGED error
    /\ UNCHANGED << disk, directoryStates, dir, histVars, invoked, manifest,
                    pending, laterVars >>

\* lines 79-130: after a step, the next step, the next repository, or the
\* end of publish()
StepDone ==
    IF stepIdx < NumCallbackSteps
    THEN /\ stepIdx' = stepIdx + 1
         /\ UNCHANGED << pc, dir >>
    ELSE IF dir < NumDirs
    THEN /\ dir' = dir + 1
         /\ stepIdx' = 1
         /\ pc' = "check"
    ELSE /\ pc' = "loop"
         /\ UNCHANGED << dir, stepIdx >>

\* lines 59-77: step() of the step the loop has reached, its callback
\* returning: the marker is set, the callback called, the marker deleted and
\* the write of the store requested; the callback of the package step only
\* requests the read of package.json. A step that is gated does nothing.
StepReturns ==
    /\ pc = "step"
    /\ IF StepRuns(directoryStates[dir], CallbackSteps[stepIdx])
       THEN /\ invoked' = [invoked EXCEPT ![dir] = Append(@, stepIdx)]
            /\ directoryStates' = [directoryStates EXCEPT ![dir] = Undefined]
            /\ pending' = pending \cup {WriteRequest(directoryStates')}
                             \cup (IF CallbackSteps[stepIdx] = "package"
                                   THEN {PackageRequest(dir)} ELSE {})
       ELSE UNCHANGED << invoked, directoryStates, pending >>
    /\ StepDone
    /\ UNCHANGED << disk, error, histVars, manifest, laterVars >>

\* lines 59-77 and 133-137: the callback of the step throws (the commands
\* of run()): the marker stays, the write of the store is requested in the
\* finally and the error leaves publish()
StepThrows ==
    /\ pc = "step"
    /\ StepRuns(directoryStates[dir], CallbackSteps[stepIdx])
    /\ CallbackSteps[stepIdx] # "package"
    /\ invoked' = [invoked EXCEPT ![dir] = Append(@, stepIdx)]
    /\ directoryStates' = [directoryStates EXCEPT ![dir] = CallbackSteps[stepIdx]]
    /\ pending' = pending \cup {WriteRequest(directoryStates')}
    /\ pc' = "loop"
    /\ error' = "step"
    /\ UNCHANGED << disk, seqVars, histVars, manifest, laterVars >>

\* line 70: a requested write reaches the file; the requests are served in
\* any order, also while publish() is still running
WriteFile ==
    /\ pc \in {"check", "step", "loop"}
    /\ \E request \in pending :
        /\ request.op = "writeState"
        /\ disk' = request.data
        /\ pending' = pending \ {request}
    /\ UNCHANGED << directoryStates, pc, seqVars, error, histVars, invoked,
                    manifest, laterVars >>

\* lines 35-41: the callback of the read of the state file, which runs only
\* once publish() has returned: the store becomes what the read found, the
\* file as it was at the start or as the writes served so far left it
ReadFileCallback ==
    /\ pc = "loop"
    /\ ReadRequest \in pending
    /\ \E data \in {startStates, disk} : directoryStates' = data
    /\ pending' = pending \ {ReadRequest}
    /\ UNCHANGED << disk, pc, seqVars, error, histVars, invoked, manifest,
                    laterVars >>

\* lines 82-112: the callback of the read of package.json, which runs only
\* once publish() has returned, updates the manifest
PackageCallback ==
    /\ pc = "loop"
    /\ \E request \in pending :
        /\ request.op = "readPackage"
        /\ manifest' = [manifest EXCEPT ![request.dir] = UpdateManifest(@)]
        /\ pending' = pending \ {request}
    /\ UNCHANGED << disk, directoryStates, pc, seqVars, error, histVars,
                    invoked, laterVars >>

\* lines 83-87: the callback of the read of package.json throws (the read
\* failed or the text does not parse): nothing catches it and the process
\* ends with the requests that were not served
PackageCallbackThrows ==
    /\ pc = "loop"
    /\ \E request \in pending : request.op = "readPackage"
    /\ pending' = {}
    /\ directoryStates' = NoStates
    /\ pc' = "failed"
    /\ error' = "package"
    /\ UNCHANGED << disk, seqVars, histVars, invoked, manifest, laterVars >>

\* publish() has returned or thrown and every callback has run: the process
\* ends
ProcessExits ==
    /\ pc = "loop"
    /\ pending = {}
    /\ pc' = IF error = "none" THEN "done" ELSE "failed"
    /\ directoryStates' = NoStates
    /\ UNCHANGED << disk, seqVars, error, histVars, invoked, manifest,
                    pending, laterVars >>

\* lines 29-42: the operator invokes the publisher again: the store is
\* empty and the contents of an existing state file are requested
RestartCallback ==
    /\ pc \in {"done", "failed"}
    /\ invocation < MaxInvocations
    /\ invocation' = invocation + 1
    /\ startStates' = disk
    /\ directoryStates' = NoStates
    /\ pending' = IF disk # NoStates THEN {ReadRequest} ELSE {}
    /\ pc' = "check"
    /\ dir' = 1
    /\ stepIdx' = 1
    /\ error' = "none"
    /\ invoked' = [d \in Dirs |-> << >>]
    /\ UNCHANGED << disk, manifest, laterVars >>

NextCallback ==
    \/ RepositoryCheck
    \/ StepReturns
    \/ StepThrows
    \/ WriteFile
    \/ ReadFileCallback
    \/ PackageCallback
    \/ PackageCallbackThrows
    \/ ProcessExits
    \/ RestartCallback

SpecCallback == InitCallback /\ [][NextCallback]_vars

\* the position in CallbackSteps of a step name
CallbackStepIndex(state) ==
    CHOOSE i \in 1..NumCallbackSteps : CallbackSteps[i] = state

\* C20: in the callback-based revision the contents of the progress file are
\* in the store before the first uncommitted-changes check and before any
\* gating of a step reads the store, so that no step before the marker a
\* previous run left for a repository is invoked for it.
LoadedBeforeUse ==
    /\ pc \in {"check", "step"} => ReadRequest \notin pending
    /\ \A d \in Dirs :
          startStates[d] \in CallbackStepNames =>
            \A k \in 1..Len(invoked[d]) :
                invoked[d][k] >= CallbackStepIndex(startStates[d])

====
